---- MODULE Spec2Model ----
(***************************************************************************)
(* Model of the lean-report artifact classifier (find_backtest_files,      *)
(* find_backtest_files_s3) and log compactor (parse_log_file,              *)
(* parse_log_file_s3).                                                     *)
(*                                                                         *)
(* A Python str is a sequence of one-character strings, so that prefix,    *)
(* suffix, basename and the timestamp grammar are computed character by    *)
(* character, as the code computes them.  A Python optional (None or a     *)
(* str) is a sequence of length 0 (None) or 1 (the str).                   *)
(***************************************************************************)
EXTENDS Integers, Sequences, FiniteSets, TLC

VARIABLES
    path,        \* the report path / log file path handed to app.get_files or app.read_log_file
    listing,     \* names under the run directory, in the backend's enumeration order
    files,       \* the dict returned by get_files
    refiles,     \* the dict returned by classifying the concatenated categories of files
    content,     \* the log file, as its sequence of lines without terminators
    n_lines,     \* the line limit handed to read_log_file
    lines,       \* parse_log_file: lines
    idx,         \* position of the for loop in lines (1-based, next line to inspect)
    last_event,  \* parse_log_file: last_event (optional)
    last_start,  \* parse_log_file: last_start (optional)
    last_end,    \* parse_log_file: last_end (optional)
    entries,     \* parse_log_file: entries
    store,       \* how the storage backend answers a listing: "ok" or the call that fails
    subdirs,     \* app: subdirs, the result of get_subdirectories(report_path)
    shown,       \* the messages the page has presented (st.error, st.warning, ...)
    work,        \* normalize_path: the local path while the function runs
    parsed,      \* what parse_s3_path returned or raised (optional)
    frames,      \* the locals of each of several invocations of read_log_file
    pc           \* position of the caller

vars == <<path, listing, files, refiles, content, n_lines, lines, idx,
          last_event, last_start, last_end, entries, store, subdirs, shown,
          work, parsed, frames, pc>>

classifyVars == <<listing, files, refiles>>
logVars == <<content, n_lines, lines, idx, last_event, last_start, last_end, entries>>
pageVars == <<store, subdirs, shown>>
pathVars == <<work, parsed>>

----------------------------------------------------------------------------
(* Bounds of the model *)

\* longest directory listing
MaxEntries == 2
\* longest log file, in lines
MaxLines == 3
\* largest line limit
MaxLimit == 3

----------------------------------------------------------------------------
(* str helpers *)

None == <<>>
Some(s) == <<s>>

\* truthiness of an optional str: None and "" are falsy
Truthy(o) == o # None /\ o[1] # <<>>

\* Python's `a or b` on optional strs
Or(a, b) == IF Truthy(a) THEN a ELSE b

Min(a, b) == IF a <= b THEN a ELSE b

\* s.startswith(p)
startswith(s, p) == Len(s) >= Len(p) /\ SubSeq(s, 1, Len(p)) = p

\* s.endswith(x)
endswith(s, x) == Len(s) >= Len(x) /\ SubSeq(s, Len(s) - Len(x) + 1, Len(s)) = x

\* s[:n] for n >= 0
Take(s, n) == SubSeq(s, 1, Min(n, Len(s)))

\* s[n:] for n >= 0
Drop(s, n) == SubSeq(s, n + 1, Len(s))

\* s.rfind("/") + 1
AfterLastSlash(s) ==
    LET at == {i \in 1..Len(s) : s[i] = "/"}
    IN  IF at = {} THEN 0 ELSE CHOOSE i \in at : \A j \in at : j <= i

\* os.path.basename(p) on posix: p[p.rfind("/") + 1:]
basename(p) == Drop(p, AfterLastSlash(p))

\* os.path.join(a, b) on posix, for a relative b
join(a, b) ==
    IF a = <<>> \/ endswith(a, <<"/">>) THEN a \o b ELSE a \o <<"/">> \o b

----------------------------------------------------------------------------
(* The naming convention *)

S3_SCHEME == <<"s","3",":","/","/">>
MONITOR_REPORT == <<"d","a","t","a","-","m","o","n","i","t","o","r","-","r","e","p","o","r","t">>
SUMMARY_JSON == <<"-","s","u","m","m","a","r","y",".","j","s","o","n">>
ORDER_EVENTS_JSON == <<"-","o","r","d","e","r","-","e","v","e","n","t","s",".","j","s","o","n">>
DOT_JSON == <<".","j","s","o","n">>
DOT_TXT == <<".","t","x","t">>
LOG_TXT == <<"-","l","o","g",".","t","x","t">>
FAILED_DATA_REQUESTS == <<"f","a","i","l","e","d","-","d","a","t","a","-","r","e","q","u","e","s","t","s">>
SUCCEEDED_DATA_REQUESTS == <<"s","u","c","c","e","e","d","e","d","-","d","a","t","a","-","r","e","q","u","e","s","t","s">>

Categories ==
    <<"main", "summary", "order_events", "monitor_report", "log",
      "failed_data_requests", "succeeded_data_requests">>

EmptyFiles == [c \in {Categories[i] : i \in 1..Len(Categories)} |-> <<>>]

----------------------------------------------------------------------------
(* s3_utils: paths *)

\* a replace that drops both separators of every "//"
RECURSIVE ReplaceDoubleSlashByNothing(_)
ReplaceDoubleSlashByNothing(p) ==
    IF Len(p) < 2 THEN p
    ELSE IF p[1] = "/" /\ p[2] = "/" THEN ReplaceDoubleSlashByNothing(Drop(p, 2))
    ELSE <<p[1]>> \o ReplaceDoubleSlashByNothing(Drop(p, 1))

\* one pass of path.replace("//", "/"): non-overlapping occurrences, left to right
RECURSIVE ReplaceDoubleSlash(_)
ReplaceDoubleSlash(p) ==
    IF Len(p) < 2 THEN p
    ELSE IF p[1] = "/" /\ p[2] = "/" THEN <<"/">> \o ReplaceDoubleSlash(Drop(p, 2))
    ELSE <<p[1]>> \o ReplaceDoubleSlash(Drop(p, 1))

HasDoubleSlash(p) == \E i \in 1..(Len(p) - 1) : p[i] = "/" /\ p[i + 1] = "/"

RECURSIVE CollapseSlashes(_)
CollapseSlashes(p) ==
    IF HasDoubleSlash(p) THEN CollapseSlashes(ReplaceDoubleSlash(p)) ELSE p

normalize_path(p) ==
    LET q == CollapseSlashes(p)
    IN  IF endswith(q, <<"/">>) THEN Take(q, Len(q) - 1) ELSE q

is_s3_path(p) == startswith(p, S3_SCHEME)

\* index of the first "/" of s, or Len(s) + 1
FirstSlash(s) ==
    LET at == {i \in 1..Len(s) : s[i] = "/"}
    IN  IF at = {} THEN Len(s) + 1 ELSE CHOOSE i \in at : \A j \in at : i <= j

\* index of the last "/" of s, or Len(s) + 1
LastSlash(s) ==
    LET at == {i \in 1..Len(s) : s[i] = "/"}
    IN  IF at = {} THEN Len(s) + 1 ELSE CHOOSE i \in at : \A j \in at : i >= j

\* a parse that cuts the bucket at the last separator
ParseAtLastSlash(p) ==
    LET path_without_protocol == Drop(p, 5)
        cut == LastSlash(path_without_protocol)
    IN  <<Take(path_without_protocol, cut - 1),
          normalize_path(Drop(path_without_protocol, cut))>>

\* parse_s3_path for a path that starts with "s3://": <<bucket, prefix>>
parse_s3_path(p) ==
    LET path_without_protocol == Drop(p, 5)
        cut == FirstSlash(path_without_protocol)
    IN  <<Take(path_without_protocol, cut - 1),
          normalize_path(Drop(path_without_protocol, cut))>>

make_s3_path(bucket, key) == S3_SCHEME \o bucket \o <<"/">> \o normalize_path(key)

\* the Prefix find_backtest_files_s3 lists: the parsed prefix, "/" appended when not empty
ListPrefix(p) ==
    LET prefix == parse_s3_path(p)[2]
    IN  IF prefix # <<>> /\ ~endswith(prefix, <<"/">>) THEN prefix \o <<"/">> ELSE prefix

----------------------------------------------------------------------------
(* utils.find_backtest_files *)

\* glob.glob(os.path.join(folder, "*" + ext)) over a directory whose scandir order is
\* names: fnmatch of "*<ext>" (case-sensitive on posix), dot-files skipped
glob(folder, names, ext) ==
    LET matched == SelectSeq(names, LAMBDA n : endswith(n, ext) /\ ~startswith(n, <<".">>))
    IN  [i \in 1..Len(matched) |-> join(folder, matched[i])]

find_backtest_files(folder, names) ==
    LET all_json == glob(folder, names, DOT_JSON)
        all_txt == glob(folder, names, DOT_TXT)
    IN  [main |-> SelectSeq(all_json, LAMBDA f :
                    ~(endswith(f, SUMMARY_JSON) \/ endswith(f, ORDER_EVENTS_JSON)
                      \/ startswith(basename(f), MONITOR_REPORT))),
         summary |-> SelectSeq(all_json, LAMBDA f : endswith(f, SUMMARY_JSON)),
         order_events |-> SelectSeq(all_json, LAMBDA f : endswith(f, ORDER_EVENTS_JSON)),
         monitor_report |-> SelectSeq(all_json, LAMBDA f :
                              startswith(basename(f), MONITOR_REPORT)),
         log |-> SelectSeq(all_txt, LAMBDA f : endswith(f, LOG_TXT)),
         failed_data_requests |-> SelectSeq(all_txt, LAMBDA f :
                                    startswith(basename(f), FAILED_DATA_REQUESTS)),
         succeeded_data_requests |-> SelectSeq(all_txt, LAMBDA f :
                                       startswith(basename(f), SUCCEEDED_DATA_REQUESTS))]

----------------------------------------------------------------------------
(* s3_utils.find_backtest_files_s3 *)

\* the paginator loop: the full path of every object key, in listing order
AllFiles(bucket, keys) == [i \in 1..Len(keys) |-> make_s3_path(bucket, keys[i])]

\* A reordering bug: the main category comes out in reverse listing order.
CategorizeS3Reversed(all_files) ==
    LET mainSel == SelectSeq(all_files, LAMBDA f :
                     endswith(f, DOT_JSON)
                     /\ ~(endswith(f, SUMMARY_JSON) \/ endswith(f, ORDER_EVENTS_JSON)
                          \/ startswith(basename(f), MONITOR_REPORT)))
    IN  [main |-> [i \in 1..Len(mainSel) |-> mainSel[Len(mainSel) + 1 - i]],
         summary |-> SelectSeq(all_files, LAMBDA f : endswith(f, SUMMARY_JSON)),
         order_events |-> SelectSeq(all_files, LAMBDA f : endswith(f, ORDER_EVENTS_JSON)),
         monitor_report |-> SelectSeq(all_files, LAMBDA f :
                              startswith(basename(f), MONITOR_REPORT)),
         log |-> SelectSeq(all_files, LAMBDA f : endswith(f, LOG_TXT)),
         failed_data_requests |-> SelectSeq(all_files, LAMBDA f :
                                    startswith(basename(f), FAILED_DATA_REQUESTS)),
         succeeded_data_requests |-> SelectSeq(all_files, LAMBDA f :
                                       startswith(basename(f), SUCCEEDED_DATA_REQUESTS))]

\* the seven list comprehensions over all_files
CategorizeS3(all_files) ==
    [main |-> SelectSeq(all_files, LAMBDA f :
                endswith(f, DOT_JSON)
                /\ ~(endswith(f, SUMMARY_JSON) \/ endswith(f, ORDER_EVENTS_JSON)
                     \/ startswith(basename(f), MONITOR_REPORT))),
     summary |-> SelectSeq(all_files, LAMBDA f : endswith(f, SUMMARY_JSON)),
     order_events |-> SelectSeq(all_files, LAMBDA f : endswith(f, ORDER_EVENTS_JSON)),
     monitor_report |-> SelectSeq(all_files, LAMBDA f :
                          startswith(basename(f), MONITOR_REPORT)),
     log |-> SelectSeq(all_files, LAMBDA f : endswith(f, LOG_TXT)),
     failed_data_requests |-> SelectSeq(all_files, LAMBDA f :
                                startswith(basename(f), FAILED_DATA_REQUESTS)),
     succeeded_data_requests |-> SelectSeq(all_files, LAMBDA f :
                                   startswith(basename(f), SUCCEEDED_DATA_REQUESTS))]

\* keys are the object keys the store lists under the path's prefix
find_backtest_files_s3(s3_path, keys) ==
    CategorizeS3(AllFiles(parse_s3_path(s3_path)[1], keys))

----------------------------------------------------------------------------
(* Run directories the classifier is tried on *)

\* "/d"
LOCAL_FOLDER == <<"/","d">>
\* "s3://b/p"
S3_FOLDER == <<"s","3",":","/","/","b","/","p">>

ReportPaths == {LOCAL_FOLDER, S3_FOLDER}

CSV == <<".","c","s","v">>

\* "r.json"
N_MAIN == <<"r">> \o DOT_JSON
\* "r-summary.json"
N_SUMMARY == <<"r">> \o SUMMARY_JSON
\* "r-order-events.json"
N_ORDER_EVENTS == <<"r">> \o ORDER_EVENTS_JSON
\* "data-monitor-report-xyz-summary.json"
N_MONITOR_SUMMARY == MONITOR_REPORT \o <<"-","x","y","z">> \o SUMMARY_JSON
\* "data-monitor-report-order-events.json"
N_MONITOR_ORDER_EVENTS == MONITOR_REPORT \o ORDER_EVENTS_JSON
\* "data-monitor-report.csv"
N_MONITOR_CSV == MONITOR_REPORT \o CSV
\* "r-log.txt"
N_LOG == <<"r">> \o LOG_TXT
\* "failed-data-requests-log.txt"
N_FAILED_LOG == FAILED_DATA_REQUESTS \o LOG_TXT
\* "failed-data-requests.csv"
N_FAILED_CSV == FAILED_DATA_REQUESTS \o CSV
\* "succeeded-data-requests.txt"
N_SUCCEEDED_TXT == SUCCEEDED_DATA_REQUESTS \o DOT_TXT
\* "succeeded-data-requests"
N_SUCCEEDED_BARE == SUCCEEDED_DATA_REQUESTS
\* "notes.md"
N_NOTES == <<"n","o","t","e","s",".","m","d">>
\* "R.JSON"
N_UPPER == <<"R",".","J","S","O","N">>
\* ".json"
N_DOTFILE == DOT_JSON

EntryNames ==
    {N_MAIN, N_SUMMARY, N_ORDER_EVENTS, N_MONITOR_SUMMARY, N_MONITOR_ORDER_EVENTS,
     N_MONITOR_CSV, N_LOG, N_FAILED_LOG, N_FAILED_CSV, N_SUCCEEDED_TXT,
     N_SUCCEEDED_BARE, N_NOTES, N_UPPER, N_DOTFILE}

\* a directory listing: distinct names, in any order
Listings ==
    UNION {{s \in [1..n -> EntryNames] : \A i, j \in 1..n : i # j => s[i] # s[j]}
           : n \in 0..MaxEntries}

\* the object keys of the names under an object-store run directory
KeysUnder(s3_path, names) == [i \in 1..Len(names) |-> ListPrefix(s3_path) \o names[i]]

\* the entry paths the classifier sees for a listing: the input enumeration
EntryPaths(p, names) ==
    IF is_s3_path(p)
    THEN AllFiles(parse_s3_path(p)[1], KeysUnder(p, names))
    ELSE [i \in 1..Len(names) |-> join(p, names[i])]

\* the name of an entry path under run directory p
NameOf(p, f) ==
    IF is_s3_path(p)
    THEN Drop(f, Len(make_s3_path(parse_s3_path(p)[1], ListPrefix(p))) + 1)
    ELSE Drop(f, Len(join(p, <<>>)))

\* the seven category sequences, concatenated in category order
ConcatCategories(r) ==
    r.main \o r.summary \o r.order_events \o r.monitor_report \o r.log
    \o r.failed_data_requests \o r.succeeded_data_requests

----------------------------------------------------------------------------
(* app.get_files, and the classifier applied to its own output *)

PageIdle ==
    /\ store = "ok"
    /\ subdirs = <<>>
    /\ shown = <<>>

PathIdle ==
    /\ work = <<>>
    /\ parsed = <<>>

FramesIdle == frames = <<>>

LogIdle ==
    /\ content = <<>>
    /\ n_lines = 0
    /\ lines = <<>>
    /\ idx = 1
    /\ last_event = None
    /\ last_start = None
    /\ last_end = None
    /\ entries = <<>>

InitClassify ==
    /\ path \in ReportPaths
    /\ listing \in Listings
    /\ files = EmptyFiles
    /\ refiles = EmptyFiles
    /\ pc = "get_files"
    /\ LogIdle
    /\ PageIdle
    /\ PathIdle
    /\ FramesIdle

GetFilesS3 ==
    /\ pc = "get_files"
    /\ is_s3_path(path)
    /\ files' = find_backtest_files_s3(path, KeysUnder(path, listing))
    /\ pc' = "classified"
    /\ UNCHANGED <<path, listing, refiles, logVars, pageVars, pathVars, frames>>

GetFilesLocal ==
    /\ pc = "get_files"
    /\ ~is_s3_path(path)
    /\ files' = find_backtest_files(path, listing)
    /\ pc' = "classified"
    /\ UNCHANGED <<path, listing, refiles, logVars, pageVars, pathVars, frames>>

\* classify(concatenation of the categories of files)
ClassifyAgain ==
    /\ pc = "classified"
    /\ LET again == ConcatCategories(files)
           names == [i \in 1..Len(again) |-> NameOf(path, again[i])]
       IN  refiles' = IF is_s3_path(path)
                      THEN find_backtest_files_s3(path, KeysUnder(path, names))
                      ELSE find_backtest_files(path, names)
    /\ pc' = "reclassified"
    /\ UNCHANGED <<path, listing, files, logVars, pageVars, pathVars, frames>>

NextClassify == GetFilesS3 \/ GetFilesLocal \/ ClassifyAgain

SpecClassify == InitClassify /\ [][NextClassify]_vars

----------------------------------------------------------------------------
(* Classifier properties *)

Classified == pc \in {"classified", "reclassified"}

CategorySet == {Categories[i] : i \in 1..Len(Categories)}

InCategory(f, c) == \E i \in 1..Len(files[c]) : files[c][i] = f

CategoriesOf(f) == {c \in CategorySet : InCategory(f, c)}

RECURSIVE SumLen(_, _)
SumLen(r, cs) ==
    IF cs = {} THEN 0
    ELSE LET c == CHOOSE x \in cs : TRUE IN Len(r[c]) + SumLen(r, cs \ {c})

\* C1: every input path is in at most one category, so the category lengths sum to
\* at most the number of input paths, with equality iff no path is dropped.
C1_Exclusivity ==
    Classified =>
        LET input == EntryPaths(path, listing)
        IN  /\ \A i \in 1..Len(input) : Cardinality(CategoriesOf(input[i])) <= 1
            /\ SumLen(files, CategorySet) <= Len(input)
            /\ SumLen(files, CategorySet) = Len(input)
                   <=> \A i \in 1..Len(input) : CategoriesOf(input[i]) # {}

\* C2: an entry whose basename starts with data-monitor-report and ends with
\* -summary.json is in monitor_report and in neither summary nor main; one that ends
\* with -order-events.json is in monitor_report and not in order_events.
C2_Precedence ==
    Classified =>
        LET input == EntryPaths(path, listing)
        IN  \A i \in 1..Len(input) :
                LET f == input[i]
                IN  /\ (startswith(basename(f), MONITOR_REPORT) /\ endswith(f, SUMMARY_JSON))
                        => /\ InCategory(f, "monitor_report")
                           /\ ~InCategory(f, "summary")
                           /\ ~InCategory(f, "main")
                    /\ (startswith(basename(f), MONITOR_REPORT)
                        /\ endswith(f, ORDER_EVENTS_JSON))
                        => /\ InCategory(f, "monitor_report")
                           /\ ~InCategory(f, "order_events")

\* C3: classifying the concatenated categories of a result reproduces the result,
\* category by category and in the same order.
C3_Idempotence == pc = "reclassified" => refiles = files

\* the category of the first rule of the table a path matches, "" when it matches none
FirstMatch(f) ==
    IF startswith(basename(f), MONITOR_REPORT) THEN "monitor_report"
    ELSE IF endswith(basename(f), SUMMARY_JSON) THEN "summary"
    ELSE IF endswith(basename(f), ORDER_EVENTS_JSON) THEN "order_events"
    ELSE IF endswith(basename(f), DOT_JSON) THEN "main"
    ELSE IF endswith(basename(f), LOG_TXT) THEN "log"
    ELSE IF startswith(basename(f), FAILED_DATA_REQUESTS) THEN "failed_data_requests"
    ELSE IF startswith(basename(f), SUCCEEDED_DATA_REQUESTS) THEN "succeeded_data_requests"
    ELSE ""

\* C4: every entry is in the category of the first rule it matches and in no other;
\* an entry matching no rule is in no category.
C4_FirstMatchTable ==
    Classified =>
        LET input == EntryPaths(path, listing)
        IN  \A i \in 1..Len(input) : \A c \in CategorySet :
                InCategory(input[i], c) <=> FirstMatch(input[i]) = c

\* s is a subsequence of t
RECURSIVE IsSubsequence(_, _)
IsSubsequence(s, t) ==
    IF s = <<>> THEN TRUE
    ELSE IF t = <<>> THEN FALSE
    ELSE IF Head(s) = Head(t) THEN IsSubsequence(Tail(s), Tail(t))
    ELSE IsSubsequence(s, Tail(t))

\* C10: every category lists its paths in the order of the input enumeration.
C10_OrderPreserved ==
    Classified =>
        \A c \in CategorySet : IsSubsequence(files[c], EntryPaths(path, listing))

\* a classified listing of which one category holds at least two entries
C10_Witness ==
    /\ Classified
    /\ \E c \in CategorySet : Len(files[c]) >= 2

----------------------------------------------------------------------------
(* The log line grammar *)
\* ^(\d{4}-\d{2}-\d{2} \d{2}:\d{2}:\d{2})\s+(.*)$

IsDigit(c) == c \in {"0", "1", "2", "3", "4", "5", "6", "7", "8", "9"}

\* the whitespace characters of the model: space and tab
IsSpace(c) == c \in {" ", "\t"}

\* the 19 characters of group 1, "d" standing for \d
TIMESTAMP_SHAPE ==
    <<"d","d","d","d","-","d","d","-","d","d"," ","d","d",":","d","d",":","d","d">>

\* re.match succeeds: group 1, then at least one whitespace character
MatchesLogLine(line) ==
    /\ Len(line) > Len(TIMESTAMP_SHAPE)
    /\ \A i \in 1..Len(TIMESTAMP_SHAPE) :
           IF TIMESTAMP_SHAPE[i] = "d" THEN IsDigit(line[i]) ELSE line[i] = TIMESTAMP_SHAPE[i]
    /\ IsSpace(line[Len(TIMESTAMP_SHAPE) + 1])

\* what the greedy \s+ leaves to group 2: s without its leading whitespace
RECURSIVE lstrip(_)
lstrip(s) == IF s # <<>> /\ IsSpace(Head(s)) THEN lstrip(Tail(s)) ELSE s

\* line.rstrip()
RECURSIVE rstrip(_)
rstrip(s) == IF s # <<>> /\ IsSpace(s[Len(s)]) THEN rstrip(Take(s, Len(s) - 1)) ELSE s

\* [line.rstrip() for line in ls]
RStripAll(ls) == [i \in 1..Len(ls) |-> rstrip(ls[i])]

\* <<dt, event>> of a line
ParseLine(line) ==
    IF MatchesLogLine(line)
    THEN <<Take(line, Len(TIMESTAMP_SHAPE)), lstrip(Drop(line, Len(TIMESTAMP_SHAPE)))>>
    ELSE <<<<>>, line>>

----------------------------------------------------------------------------
(* utils.parse_log_file / s3_utils.parse_log_file_s3 *)

\* " ... "
ELLIPSIS == <<" ",".",".","."," ">>

\* A formatting bug: an empty last_start falls back to last_end.
DtRangeFallsBackToEnd(start, end) ==
    IF Truthy(start) /\ Truthy(end) /\ start # end
    THEN start[1] \o ELLIPSIS \o end[1]
    ELSE Or(Or(start, end), Some(<<>>))[1]

\* dt_range of a group
DtRange(start, end) ==
    IF Truthy(start) /\ Truthy(end) /\ start # end
    THEN start[1] \o ELLIPSIS \o end[1]
    ELSE Or(start, Some(<<>>))[1]

\* the dict appended for the group in st
GroupEntry(st) ==
    [datetime |-> DtRange(st.last_start, st.last_end), event |-> st.last_event[1]]

\* A grouping bug: a line also joins the group in progress when its event equals the
\* event of the entry appended last (global rather than consecutive deduplication).
LoopBodyMergesAcross(st, line) ==
    LET dt == ParseLine(line)[1]
        event == ParseLine(line)[2]
    IN  IF Some(event) = st.last_event
           \/ (st.entries # <<>> /\ st.entries[Len(st.entries)].event = event)
        THEN [st EXCEPT !.last_end = Or(Some(dt), st.last_end)]
        ELSE [last_event |-> Some(event),
              last_start |-> Some(dt),
              last_end |-> Some(dt),
              entries |-> IF st.last_event # None
                          THEN Append(st.entries, GroupEntry(st))
                          ELSE st.entries]

\* An extension bug: a line without timestamp that joins a group clears last_end
\* (last_end = dt instead of last_end = dt or last_end).
LoopBodyClearsEnd(st, line) ==
    LET dt == ParseLine(line)[1]
        event == ParseLine(line)[2]
    IN  IF Some(event) = st.last_event
        THEN [st EXCEPT !.last_end = Some(dt)]
        ELSE [last_event |-> Some(event),
              last_start |-> Some(dt),
              last_end |-> Some(dt),
              entries |-> IF st.last_event # None
                          THEN Append(st.entries, GroupEntry(st))
                          ELSE st.entries]

\* A restart bug: a line that joins the group in progress also moves the start of the
\* group (last_start = dt).
LoopBodyRestartsGroup(st, line) ==
    LET dt == ParseLine(line)[1]
        event == ParseLine(line)[2]
    IN  IF Some(event) = st.last_event
        THEN [st EXCEPT !.last_start = Some(dt), !.last_end = Or(Some(dt), st.last_end)]
        ELSE [last_event |-> Some(event),
              last_start |-> Some(dt),
              last_end |-> Some(dt),
              entries |-> IF st.last_event # None
                          THEN Append(st.entries, GroupEntry(st))
                          ELSE st.entries]

\* one iteration of `for line in lines`, on the locals st
LoopBody(st, line) ==
    LET dt == ParseLine(line)[1]
        event == ParseLine(line)[2]
    IN  IF Some(event) = st.last_event
        THEN [st EXCEPT !.last_end = Or(Some(dt), st.last_end)]
        ELSE [last_event |-> Some(event),
              last_start |-> Some(dt),
              last_end |-> Some(dt),
              entries |-> IF st.last_event # None
                          THEN Append(st.entries, GroupEntry(st))
                          ELSE st.entries]

\* A guard bug: the group in progress is appended even when there is none.
AddLastGroupAlways(st) ==
    Append(st.entries,
           [datetime |-> DtRange(st.last_start, st.last_end),
            event |-> IF st.last_event # None THEN st.last_event[1] ELSE <<>>])

\* "Add the last group"
AddLastGroup(st) ==
    IF st.last_event # None THEN Append(st.entries, GroupEntry(st)) ELSE st.entries

\* A slicing bug: one line more than the limit is read.
ReadLinesOneMore(raw, n) == Take(raw, n + 1)

\* content.splitlines()[:n_lines] / f.readlines()[:n_lines], terminators dropped
ReadLines(raw, n) == Take(raw, n)

Locals == [last_event |-> last_event, last_start |-> last_start,
           last_end |-> last_end, entries |-> entries]

----------------------------------------------------------------------------
(* Log files the compactor is tried on *)

LogPaths == {join(LOCAL_FOLDER, N_LOG), S3_FOLDER \o <<"/">> \o N_LOG}

\* "2024-01-01 00:00:00"
TS0 == <<"2","0","2","4","-","0","1","-","0","1"," ","0","0",":","0","0",":","0","0">>
\* "2024-01-01 00:00:01"
TS1 == <<"2","0","2","4","-","0","1","-","0","1"," ","0","0",":","0","0",":","0","1">>
\* "2024-01-01 00:00:05"
TS5 == <<"2","0","2","4","-","0","1","-","0","1"," ","0","0",":","0","0",":","0","5">>

\* "2024-01-01 00:00:00 A"
L_T0_A == TS0 \o <<" ","A">>
\* "2024-01-01 00:00:01 A"
L_T1_A == TS1 \o <<" ","A">>
\* "2024-01-01 00:00:05 B"
L_T5_B == TS5 \o <<" ","B">>
\* "A"
L_A == <<"A">>
\* "plain message"
L_PLAIN == <<"p","l","a","i","n"," ","m","e","s","s","a","g","e">>
\* "2024-01-01 00:00:00 ": a timestamp followed only by a space
L_T0_SP == TS0 \o <<" ">>
\* "2024-1-01 00:00:00 A ": not of the fixed format, and a trailing space
L_MALFORMED_SP == <<"2","0","2","4","-","1","-","0","1"," ","0","0",":","0","0",":","0","0"," ","A"," ">>
\* "2024-01-01 00:00:01\t A": a tab and a space between timestamp and event
L_T1_TAB_A == TS1 \o <<"\t"," ","A">>

\* "2024-01-01 00:00:05 A ": trailing space
L_T5_A_SP == TS5 \o <<" ","A"," ">>
\* "": an empty line
L_EMPTY == <<>>

LogLines ==
    {L_T0_A, L_T1_A, L_T5_B, L_A, L_PLAIN, L_T0_SP, L_MALFORMED_SP, L_T1_TAB_A,
     L_T5_A_SP, L_EMPTY}

LogFiles == UNION {[1..n -> LogLines] : n \in 0..MaxLines}

----------------------------------------------------------------------------
(* app.read_log_file *)

ClassifyIdle ==
    /\ listing = <<>>
    /\ files = EmptyFiles
    /\ refiles = EmptyFiles

InitCompact ==
    /\ path \in LogPaths
    /\ content \in LogFiles
    /\ n_lines \in 0..MaxLimit
    /\ lines = <<>>
    /\ idx = 1
    /\ last_event = None
    /\ last_start = None
    /\ last_end = None
    /\ entries = <<>>
    /\ pc = "read_log"
    /\ ClassifyIdle
    /\ PageIdle
    /\ PathIdle
    /\ FramesIdle

\* parse_log_file_s3 up to the loop
ReadLogS3 ==
    /\ pc = "read_log"
    /\ is_s3_path(path)
    /\ lines' = ReadLines(content, n_lines)
    /\ idx' = 1
    /\ entries' = <<>>
    /\ last_event' = None
    /\ last_start' = None
    /\ last_end' = None
    /\ pc' = "loop"
    /\ UNCHANGED <<path, content, n_lines, classifyVars, pageVars, pathVars, frames>>

\* parse_log_file up to the loop
ReadLogLocal ==
    /\ pc = "read_log"
    /\ ~is_s3_path(path)
    /\ lines' = RStripAll(ReadLines(content, n_lines))
    /\ idx' = 1
    /\ entries' = <<>>
    /\ last_event' = None
    /\ last_start' = None
    /\ last_end' = None
    /\ pc' = "loop"
    /\ UNCHANGED <<path, content, n_lines, classifyVars, pageVars, pathVars, frames>>

\* one iteration of the loop
LoopStep ==
    /\ pc = "loop"
    /\ idx <= Len(lines)
    /\ LET st == LoopBody(Locals, lines[idx])
       IN  /\ last_event' = st.last_event
           /\ last_start' = st.last_start
           /\ last_end' = st.last_end
           /\ entries' = st.entries
    /\ idx' = idx + 1
    /\ UNCHANGED <<path, content, n_lines, lines, pc, classifyVars, pageVars,
                   pathVars, frames>>

\* the loop is over: the last group is added and entries returned
LoopExit ==
    /\ pc = "loop"
    /\ idx > Len(lines)
    /\ entries' = AddLastGroup(Locals)
    /\ pc' = "done"
    /\ UNCHANGED <<path, content, n_lines, lines, idx, last_event, last_start,
                   last_end, classifyVars, pageVars, pathVars, frames>>

NextCompact == ReadLogS3 \/ ReadLogLocal \/ LoopStep \/ LoopExit

SpecCompact == InitCompact /\ [][NextCompact]_vars

----------------------------------------------------------------------------
(* The compactor as a function of the file and the limit *)

RECURSIVE RunLoop(_, _)
RunLoop(st, ls) == IF ls = <<>> THEN st ELSE RunLoop(LoopBody(st, Head(ls)), Tail(ls))

NoGroup == [last_event |-> None, last_start |-> None, last_end |-> None, entries |-> <<>>]

\* read_log_file(p, n) on a file whose lines are raw
read_log_file(p, raw, n) ==
    LET ls == IF is_s3_path(p) THEN ReadLines(raw, n) ELSE RStripAll(ReadLines(raw, n))
    IN  AddLastGroup(RunLoop(NoGroup, ls))

----------------------------------------------------------------------------
(* Compactor properties, stated on the runs of equal event text *)

\* the <<dt, event>> of every line
Parsed(ls) == [i \in 1..Len(ls) |-> ParseLine(ls[i])]

\* the positions at which a maximal run of consecutive equal event texts starts
RunStarts(ps) == {i \in 1..Len(ps) : i = 1 \/ ps[i][2] # ps[i - 1][2]}

NumRuns(ps) == Cardinality(RunStarts(ps))

\* first and last position of the k-th run
RunFirst(ps, k) ==
    LET starts == RunStarts(ps)
    IN  CHOOSE i \in starts : Cardinality({j \in starts : j <= i}) = k

RunLast(ps, k) == IF k = NumRuns(ps) THEN Len(ps) ELSE RunFirst(ps, k + 1) - 1

\* the event texts with every maximal run collapsed to one element
CollapsedEvents(ps) == [k \in 1..NumRuns(ps) |-> ps[RunFirst(ps, k)][2]]

\* timestamp of the first line of the k-th run
RangeStart(ps, k) == ps[RunFirst(ps, k)][1]

\* timestamp of the last line of the k-th run that has one, else empty
RangeEnd(ps, k) ==
    LET stamped == {i \in RunFirst(ps, k)..RunLast(ps, k) : ps[i][1] # <<>>}
    IN  IF stamped = {} THEN <<>>
        ELSE ps[CHOOSE i \in stamped : \A j \in stamped : j <= i][1]

EventsOf(es) == [k \in 1..Len(es) |-> es[k].event]

\* the lines the loop has inspected so far
Inspected == Take(lines, idx - 1)

\* the groups so far: the entries appended, then the group in progress
GroupEvents == EventsOf(entries) \o (IF pc = "loop" THEN last_event ELSE <<>>)

\* C5: the events of the output are the per-line event texts with every maximal run
\* of consecutive equal texts collapsed to one; no two adjacent entries have the same
\* event.  It holds of every prefix the loop has inspected, and of the result.
C5_ConsecutiveGrouping ==
    pc \in {"loop", "done"} =>
        /\ GroupEvents = CollapsedEvents(Parsed(Inspected))
        /\ \A k \in 1..(Len(entries) - 1) : entries[k].event # entries[k + 1].event

\* the result for three lines whose events are A, B, A: three entries
C5_Witness ==
    /\ pc = "done"
    /\ Len(lines) = 3
    /\ ParseLine(lines[1])[2] = ParseLine(lines[3])[2]
    /\ ParseLine(lines[1])[2] # ParseLine(lines[2])[2]
    /\ Len(entries) = 3

\* the datetime the claim gives the k-th run
RangeText(ps, k) ==
    LET rangeStart == RangeStart(ps, k)
        rangeEnd == RangeEnd(ps, k)
    IN  IF rangeStart # <<>> /\ rangeEnd # <<>> /\ rangeStart # rangeEnd
        THEN rangeStart \o ELLIPSIS \o rangeEnd
        ELSE rangeStart

\* C6: each entry's datetime is "rangeStart ... rangeEnd" when both are non-empty and
\* differ, else rangeStart; rangeStart is the timestamp of the run's first line and
\* rangeEnd that of the run's last line that has a timestamp.
C6_TimeRange ==
    pc = "done" =>
        LET ps == Parsed(lines)
        IN  /\ Len(entries) = NumRuns(ps)
            /\ \A k \in 1..Len(entries) : entries[k].datetime = RangeText(ps, k)
            /\ lines = <<L_T0_A, L_T1_A, L_T5_B>> =>
                   entries = <<[datetime |-> TS0 \o ELLIPSIS \o TS1, event |-> <<"A">>],
                               [datetime |-> TS5, event |-> <<"B">>]>>

\* the result for a run of three lines: stamped, stamped later, then without timestamp
C6_Witness ==
    /\ pc = "done"
    /\ Len(lines) = 3
    /\ LET ps == Parsed(lines)
       IN  /\ NumRuns(ps) = 1
           /\ ps[1][1] # <<>>
           /\ ps[2][1] # <<>>
           /\ ps[2][1] # ps[1][1]
           /\ ps[3][1] = <<>>
           /\ entries[1].datetime = ps[1][1] \o ELLIPSIS \o ps[2][1]

\* C7: the result is that of the first n_lines lines alone; the loop makes at most
\* min(n_lines, number of lines) steps and emits at most n_lines entries.
C7_LimitRespected ==
    /\ pc \in {"loop", "done"} =>
           /\ Len(lines) = Min(n_lines, Len(content))
           /\ idx - 1 <= Min(n_lines, Len(content))
           /\ Len(entries) <= n_lines
    /\ pc = "done" =>
           /\ idx - 1 = Min(n_lines, Len(content))
           /\ entries = read_log_file(path, Take(content, n_lines), n_lines)
           /\ entries = read_log_file(path, content, n_lines)

\* a result for a file with a line beyond the limit whose event differs from the
\* last line within the limit
C7_Witness ==
    /\ pc = "done"
    /\ n_lines >= 1
    /\ Len(content) > n_lines
    /\ ParseLine(content[n_lines + 1])[2] # ParseLine(content[n_lines])[2]
    /\ Len(entries) = n_lines

\* the k-th run starts without a timestamp and a later line of it has one
StartsUnstamped(ps, k) == RangeStart(ps, k) = <<>> /\ RangeEnd(ps, k) # <<>>

\* C8: a run whose first line has no timestamp and a later line of which has one is
\* emitted with the empty datetime, whether it is closed by a different event or is
\* the final run.
C8_EmptyStartQuirk ==
    pc = "done" =>
        LET ps == Parsed(lines)
        IN  \A k \in 1..NumRuns(ps) :
                StartsUnstamped(ps, k) => entries[k].datetime = <<>>

\* such a run closed by a following different event
C8_Witness ==
    /\ pc = "done"
    /\ NumRuns(Parsed(lines)) = 2
    /\ StartsUnstamped(Parsed(lines), 1)
    /\ Len(entries) = 2

\* such a run as the final run
C8_WitnessFinal ==
    /\ pc = "done"
    /\ NumRuns(Parsed(lines)) >= 1
    /\ StartsUnstamped(Parsed(lines), NumRuns(Parsed(lines)))

\* C9: a line that does not match the grammar has the empty timestamp and the whole
\* line, unchanged, as its event; as the sole line of the file it yields exactly one
\* entry with datetime "" and the line as event.
C9_UnmatchedLines ==
    pc = "done" =>
        /\ \A i \in 1..Len(lines) :
               ~MatchesLogLine(content[i]) =>
                   ParseLine(lines[i]) = <<<<>>, content[i]>>
        /\ (Len(content) = 1 /\ n_lines >= 1 /\ ~MatchesLogLine(content[1])) =>
               entries = <<[datetime |-> <<>>, event |-> content[1]]>>

----------------------------------------------------------------------------
(* The two backends compared *)

\* the names of the entries of category c of result r, for run directory p
NamesIn(p, r, c) == [i \in 1..Len(r[c]) |-> NameOf(p, r[c][i])]

\* the result of the other backend's classifier for a run directory with the same names
OtherBackendFiles ==
    IF is_s3_path(path)
    THEN find_backtest_files(LOCAL_FOLDER, listing)
    ELSE find_backtest_files_s3(S3_FOLDER, KeysUnder(S3_FOLDER, listing))

OtherReportPath == IF is_s3_path(path) THEN LOCAL_FOLDER ELSE S3_FOLDER

\* C11: for the same entry names, the local and the object-store classifier put every
\* entry in the same categories.
C11_SameCategoriesOnBothBackends ==
    Classified =>
        \A c \in CategorySet :
            NamesIn(path, files, c) = NamesIn(OtherReportPath, OtherBackendFiles, c)

OtherLogPath ==
    IF is_s3_path(path) THEN join(LOCAL_FOLDER, N_LOG) ELSE S3_FOLDER \o <<"/">> \o N_LOG

\* C12: for the same log text and limit, the local and the object-store compactor
\* return the same entries.
C12_SameEntriesOnBothBackends ==
    pc = "done" => entries = read_log_file(OtherLogPath, content, n_lines)

----------------------------------------------------------------------------
(* app: the page run for a report path, with a storage backend that may fail *)

\* how the backend answers: listing the subdirectories or listing the entries raises
StoreConditions == {"ok", "dirs_fail", "files_fail", "down"}

ListDirsFails == store \in {"dirs_fail", "down"}
ListFilesFails == store \in {"files_fail", "down"}

\* "run"
RUN_DIR == <<"r","u","n">>

\* the subdirectories the backend lists under the report path
SubdirListings == {<<>>, <<RUN_DIR>>}

\* the {} get_files returns after an object-store error
EmptyDict == [c \in {} |-> <<>>]

\* app.get_files(p): the dict returned and the messages presented.  glob returns
\* nothing for a folder it cannot list; find_backtest_files_s3 re-raises a listing error
get_files(p, names) ==
    IF is_s3_path(p)
    THEN IF ListFilesFails
         THEN [value |-> EmptyDict, messages |-> <<"Error finding S3 files">>]
         ELSE [value |-> find_backtest_files_s3(p, KeysUnder(p, names)), messages |-> <<>>]
    ELSE [value |-> find_backtest_files(p, IF ListFilesFails THEN <<>> ELSE names),
          messages |-> <<>>]

InitPage ==
    /\ path \in ReportPaths
    /\ listing \in Listings
    /\ store \in StoreConditions
    /\ files = EmptyFiles
    /\ refiles = EmptyFiles
    /\ subdirs = <<>>
    /\ shown = <<>>
    /\ pc = "page_start"
    /\ LogIdle
    /\ PathIdle
    /\ FramesIdle

\* subdirs = get_subdirectories(report_path), object store: the error is caught
PageSubdirsS3 ==
    /\ pc = "page_start"
    /\ is_s3_path(path)
    /\ IF ListDirsFails
       THEN /\ subdirs' = <<>>
            /\ shown' = Append(shown, "Error listing S3 directories")
       ELSE /\ \E d \in SubdirListings : subdirs' = d
            /\ UNCHANGED shown
    /\ pc' = "page_branch"
    /\ UNCHANGED <<path, listing, files, refiles, store, logVars, pathVars, frames>>

\* subdirs = get_subdirectories(report_path), local: os.listdir is not guarded
PageSubdirsLocal ==
    /\ pc = "page_start"
    /\ ~is_s3_path(path)
    /\ IF ListDirsFails
       THEN /\ pc' = "unhandled_exception"
            /\ UNCHANGED subdirs
       ELSE /\ \E d \in SubdirListings : subdirs' = d
            /\ pc' = "page_branch"
    /\ UNCHANGED <<path, listing, files, refiles, store, shown, logVars, pathVars, frames>>

\* a leaf: files = get_files(report_path); has_json = bool(files["main"] or ...)
PageLeaf ==
    /\ pc = "page_branch"
    /\ path # <<>>
    /\ Len(subdirs) = 0
    /\ LET got == get_files(path, listing)
       IN  /\ files' = got.value
           /\ IF "main" \notin DOMAIN got.value
              THEN /\ pc' = "unhandled_exception"
                   /\ shown' = shown \o got.messages
              ELSE /\ pc' = "page_done"
                   /\ shown' = shown \o got.messages \o
                         (IF got.value["main"] # <<>> \/ got.value["summary"] # <<>>
                          THEN <<"Backtest result">>
                          ELSE <<"No backtest report (JSON) found in this folder.">>)
    /\ UNCHANGED <<path, listing, refiles, store, subdirs, logVars, pathVars, frames>>

\* a container: the summary files of every subdirectory are listed
PageContainer ==
    /\ pc = "page_branch"
    /\ ~(path # <<>> /\ Len(subdirs) = 0)
    /\ IF is_s3_path(path)
       THEN /\ shown' = shown \o
                  [i \in 1..Len(subdirs) |->
                      IF ListFilesFails THEN "Error finding summary files in S3"
                      ELSE "Optimization results"]
            /\ pc' = "page_done"
       ELSE /\ UNCHANGED shown
            /\ pc' = IF ListFilesFails THEN "unhandled_exception" ELSE "page_done"
    /\ UNCHANGED <<path, listing, files, refiles, store, subdirs, logVars, pathVars, frames>>

NextPage == PageSubdirsS3 \/ PageSubdirsLocal \/ PageLeaf \/ PageContainer

SpecPage == InitPage /\ [][NextPage]_vars

IsErrorMessage(m) ==
    m \in {"Error listing S3 directories", "Error finding S3 files",
           "Error finding summary files in S3"}

\* C13: when the backend fails while listing the subdirectories or the entries of the
\* report path, the page run presents an error message and ends without an unhandled
\* exception.
C13_PartialFailureTolerance ==
    /\ pc # "unhandled_exception"
    /\ (pc = "page_done" /\ store = "down") =>
           \E i \in 1..Len(shown) : IsErrorMessage(shown[i])

----------------------------------------------------------------------------
(* s3_utils: parse_s3_path and normalize_path on bounded path strings *)

MaxPathLen == 4

PathChars == {"/", "a", "b"}

\* "s3:/" and "S3://": near misses of the scheme marker
PathHeads == {<<>>, S3_SCHEME, <<"s","3",":","/">>, <<"S","3",":","/","/">>}

PathBodies == UNION {[1..n -> PathChars] : n \in 0..MaxPathLen}

PathInputs == {h \o b : h \in PathHeads, b \in PathBodies}

InitPath ==
    /\ path \in PathInputs
    /\ work = path
    /\ parsed = <<>>
    /\ pc \in {"parse_s3_path", "normalize_path"}
    /\ listing = <<>>
    /\ ClassifyIdle
    /\ LogIdle
    /\ PageIdle
    /\ FramesIdle

\* parse_s3_path(s3_path): ValueError, or the (bucket, prefix) pair
ParseS3Path ==
    /\ pc = "parse_s3_path"
    /\ parsed' = IF ~startswith(path, S3_SCHEME)
                 THEN [raised |-> "ValueError", value |-> <<>>]
                 ELSE [raised |-> "", value |-> parse_s3_path(path)]
    /\ pc' = "parsed"
    /\ UNCHANGED <<path, work, listing, files, refiles, logVars, pageVars, frames>>

\* while "//" in path: path = path.replace("//", "/")
NormalizeLoop ==
    /\ pc = "normalize_path"
    /\ HasDoubleSlash(work)
    /\ work' = ReplaceDoubleSlash(work)
    /\ UNCHANGED <<path, parsed, pc, listing, files, refiles, logVars, pageVars, frames>>

\* if path.endswith("/"): path = path[:-1]; return path
NormalizeExit ==
    /\ pc = "normalize_path"
    /\ ~HasDoubleSlash(work)
    /\ work' = IF endswith(work, <<"/">>) THEN Take(work, Len(work) - 1) ELSE work
    /\ pc' = "normalized"
    /\ UNCHANGED <<path, parsed, listing, files, refiles, logVars, pageVars, frames>>

NextPath == ParseS3Path \/ NormalizeLoop \/ NormalizeExit

SpecPath == InitPath /\ [][NextPath]_vars

\* the text of s before its first "/" and the text after it
BeforeFirstSeparator(s) ==
    IF \E i \in 1..Len(s) : s[i] = "/"
    THEN CHOOSE b \in {Take(s, n) : n \in 0..Len(s)} :
             /\ Len(b) < Len(s)
             /\ s[Len(b) + 1] = "/"
             /\ \A i \in 1..Len(b) : b[i] # "/"
    ELSE s

AfterFirstSeparator(s) == Drop(s, Len(BeforeFirstSeparator(s)) + 1)

\* C14: parse_s3_path fails exactly when the path does not begin with "s3://"; otherwise
\* the bucket is the text between the marker and the first following separator and the
\* prefix is the normalized text after that separator.
C14_ParsePathContract ==
    pc = "parsed" =>
        /\ (parsed.raised = "ValueError") <=> ~startswith(path, S3_SCHEME)
        /\ parsed.raised = "ValueError" => parsed.value = <<>>
        /\ parsed.raised # "ValueError" =>
               /\ parsed.raised = ""
               /\ parsed.value[1] = BeforeFirstSeparator(Drop(path, Len(S3_SCHEME)))
               /\ parsed.value[2] =
                      normalize_path(AfterFirstSeparator(Drop(path, Len(S3_SCHEME))))

\* a parsed path whose remainder has two separators and a prefix that normalization changed
C14_Witness ==
    /\ pc = "parsed"
    /\ parsed.raised = ""
    /\ parsed.value[1] # <<>>
    /\ parsed.value[2] # <<>>
    /\ parsed.value[2] # AfterFirstSeparator(Drop(path, Len(S3_SCHEME)))

\* the path with every "/" that follows a "/" left out
RECURSIVE RunsCollapsed(_)
RunsCollapsed(p) ==
    IF Len(p) < 2 THEN p
    ELSE IF p[Len(p)] = "/" /\ p[Len(p) - 1] = "/" THEN RunsCollapsed(Take(p, Len(p) - 1))
    ELSE Append(RunsCollapsed(Take(p, Len(p) - 1)), p[Len(p)])

NonSeparators(p) == SelectSeq(p, LAMBDA ch : ch # "/")

\* C15: normalize_path collapses every run of "/" to one "/" and removes one trailing
\* "/"; the result has no "//" and does not end with "/", the other characters keep their
\* order, and every pass of the loop shortens the path, so the loop ends.
C15_Normalize ==
    /\ (pc = "normalize_path" /\ HasDoubleSlash(work)) =>
           Len(ReplaceDoubleSlash(work)) < Len(work)
    /\ pc = "normalized" =>
           /\ work = (LET q == RunsCollapsed(path)
                      IN  IF q # <<>> /\ q[Len(q)] = "/" THEN Take(q, Len(q) - 1) ELSE q)
           /\ ~HasDoubleSlash(work)
           /\ ~endswith(work, <<"/">>)
           /\ NonSeparators(work) = NonSeparators(path)

\* a path with a run of three separators and a trailing one, normalized in two passes
C15_Witness ==
    /\ pc = "normalized"
    /\ \E i \in 1..(Len(path) - 2) : path[i] = "/" /\ path[i + 1] = "/" /\ path[i + 2] = "/"
    /\ path[Len(path)] = "/"
    /\ Len(NonSeparators(path)) >= 2
    /\ Len(work) < Len(path) - 2

----------------------------------------------------------------------------
(* Two invocations in progress at once (one script thread per session), each with *)
(* the arguments and locals of its own call frame                                 *)

Invocations == {1, 2}

ConcMaxLines == 2

ConcLines == {L_T0_A, L_T5_B}

ConcFiles == UNION {[1..n -> ConcLines] : n \in 0..ConcMaxLines}

ConcNames == {N_MAIN, N_LOG}

ConcListings == UNION {[1..n -> ConcNames] : n \in 0..1}

\* invocation 1 works on the local folder, invocation 2 on the object store
ConcFolder(i) == IF i = 1 THEN LOCAL_FOLDER ELSE S3_FOLDER

ConcLogPath(i) == IF i = 1 THEN join(LOCAL_FOLDER, N_LOG) ELSE S3_FOLDER \o <<"/">> \o N_LOG

\* the frame of a call that has not executed a statement yet
NewFrame(kind, p, raw, n, names) ==
    [kind |-> kind, path |-> p, content |-> raw, n_lines |-> n, listing |-> names,
     lines |-> <<>>, idx |-> 1, last_event |-> None, last_start |-> None,
     last_end |-> None, entries |-> <<>>, files |-> EmptyFiles, pc |-> "called"]

ConcCalls(i) ==
    {NewFrame("compact", ConcLogPath(i), raw, n, <<>>) :
         raw \in ConcFiles, n \in 0..ConcMaxLines}
    \cup {NewFrame("classify", ConcFolder(i), <<>>, 0, names) : names \in ConcListings}

\* A sharing bug: last_event and last_start are kept in one module-level cell (the one
\* invocation 1 writes) instead of in the frame of the call.
FrameLocalsShared(fr, i) ==
    [last_event |-> fr[1].last_event, last_start |-> fr[1].last_start,
     last_end |-> fr[i].last_end, entries |-> fr[i].entries]

\* the locals invocation i reads
FrameLocals(fr, i) ==
    [last_event |-> fr[i].last_event, last_start |-> fr[i].last_start,
     last_end |-> fr[i].last_end, entries |-> fr[i].entries]

InitConcurrent ==
    /\ frames \in [Invocations -> UNION {ConcCalls(i) : i \in Invocations}]
    /\ \A i \in Invocations : frames[i] \in ConcCalls(i)
    /\ path = <<>>
    /\ pc = "concurrent"
    /\ ClassifyIdle
    /\ LogIdle
    /\ PageIdle
    /\ PathIdle

\* invocation i reads and slices the file and initialises its locals
FrameRead(i) ==
    /\ frames[i].kind = "compact"
    /\ frames[i].pc = "called"
    /\ frames' = [frames EXCEPT ![i] =
           [@ EXCEPT !.lines = IF is_s3_path(frames[i].path)
                               THEN ReadLines(frames[i].content, frames[i].n_lines)
                               ELSE RStripAll(ReadLines(frames[i].content,
                                                        frames[i].n_lines)),
                     !.idx = 1,
                     !.entries = <<>>,
                     !.last_event = None,
                     !.last_start = None,
                     !.last_end = None,
                     !.pc = "loop"]]
    /\ UNCHANGED <<path, pc, classifyVars, logVars, pageVars, pathVars>>

\* invocation i executes one iteration of its loop
FrameLoopStep(i) ==
    /\ frames[i].pc = "loop"
    /\ frames[i].idx <= Len(frames[i].lines)
    /\ LET st == LoopBody(FrameLocals(frames, i), frames[i].lines[frames[i].idx])
       IN  frames' = [frames EXCEPT ![i] =
               [@ EXCEPT !.last_event = st.last_event,
                         !.last_start = st.last_start,
                         !.last_end = st.last_end,
                         !.entries = st.entries,
                         !.idx = @ + 1]]
    /\ UNCHANGED <<path, pc, classifyVars, logVars, pageVars, pathVars>>

\* invocation i leaves its loop, adds the last group and returns
FrameLoopExit(i) ==
    /\ frames[i].pc = "loop"
    /\ frames[i].idx > Len(frames[i].lines)
    /\ frames' = [frames EXCEPT ![i] =
           [@ EXCEPT !.entries = AddLastGroup(FrameLocals(frames, i)), !.pc = "done"]]
    /\ UNCHANGED <<path, pc, classifyVars, logVars, pageVars, pathVars>>

\* invocation i classifies its folder and returns
FrameGetFiles(i) ==
    /\ frames[i].kind = "classify"
    /\ frames[i].pc = "called"
    /\ frames' = [frames EXCEPT ![i] =
           [@ EXCEPT !.files =
                         IF is_s3_path(frames[i].path)
                         THEN find_backtest_files_s3(
                                  frames[i].path,
                                  KeysUnder(frames[i].path, frames[i].listing))
                         ELSE find_backtest_files(frames[i].path, frames[i].listing),
                     !.pc = "done"]]
    /\ UNCHANGED <<path, pc, classifyVars, logVars, pageVars, pathVars>>

\* the frame of a finished call is dropped and the next call of the session begins
FrameNextCall(i) ==
    /\ frames[i].pc = "done"
    /\ \E f \in ConcCalls(i) : frames' = [frames EXCEPT ![i] = f]
    /\ UNCHANGED <<path, pc, classifyVars, logVars, pageVars, pathVars>>

NextConcurrent ==
    \E i \in Invocations :
        \/ FrameRead(i)
        \/ FrameLoopStep(i)
        \/ FrameLoopExit(i)
        \/ FrameGetFiles(i)
        \/ FrameNextCall(i)

SpecConcurrent == InitConcurrent /\ [][NextConcurrent]_vars

\* what the call of frame f returns when nothing else runs
AloneResult(f) ==
    IF f.kind = "compact"
    THEN read_log_file(f.path, f.content, f.n_lines)
    ELSE IF is_s3_path(f.path)
         THEN find_backtest_files_s3(f.path, KeysUnder(f.path, f.listing))
         ELSE find_backtest_files(f.path, f.listing)

\* the locals of a compaction that has run alone up to the line frame f is at
AloneLocals(f) == RunLoop(NoGroup, Take(f.lines, f.idx - 1))

\* C16: compacting an empty line sequence returns no entry, whatever the limit, and
\* classifying an empty entry sequence returns the seven categories, each empty.
C16_EmptyInput ==
    \A i \in Invocations :
        /\ (frames[i].kind = "compact" /\ frames[i].content = <<>>
            /\ frames[i].pc \in {"loop", "done"}) => frames[i].entries = <<>>
        /\ (frames[i].kind = "classify" /\ frames[i].listing = <<>>
            /\ frames[i].pc = "done") =>
               /\ DOMAIN frames[i].files =
                      {"main", "summary", "order_events", "monitor_report", "log",
                       "failed_data_requests", "succeeded_data_requests"}
               /\ \A c \in DOMAIN frames[i].files : frames[i].files[c] = <<>>

\* an empty log compacted with a positive limit and an empty folder classified
C16_Witness ==
    /\ frames[1].kind = "compact"
    /\ frames[1].content = <<>>
    /\ frames[1].n_lines > 0
    /\ frames[1].pc = "done"
    /\ frames[2].kind = "classify"
    /\ frames[2].listing = <<>>
    /\ frames[2].pc = "done"

\* C17: with the steps of two invocations interleaved in any order, each invocation
\* holds at every step the run state it holds when run alone and returns the result it
\* returns alone; no step changes the frame of the other invocation.
C17_Statelessness ==
    \A i \in Invocations :
        /\ frames[i].pc = "done" =>
               (IF frames[i].kind = "compact" THEN frames[i].entries
                ELSE frames[i].files) = AloneResult(frames[i])
        /\ frames[i].pc = "loop" =>
               FrameLocals(frames, i) = AloneLocals(frames[i])
        /\ frames[i].pc = "called" =>
               /\ FrameLocals(frames, i) = NoGroup
               /\ frames[i].files = EmptyFiles

\* both invocations are inside their loops with different groups in progress
C17_Witness ==
    /\ frames[1].pc = "loop"
    /\ frames[2].pc = "loop"
    /\ frames[1].idx = 2
    /\ frames[2].idx = 2
    /\ frames[1].idx <= Len(frames[1].lines)
    /\ frames[2].idx <= Len(frames[2].lines)
    /\ frames[1].last_event # frames[2].last_event

----------------------------------------------------------------------------
(* The log viewer reads the same file again with a larger limit *)

IsPrefix(a, b) == Len(a) <= Len(b) /\ \A i \in 1..Len(a) : a[i] = b[i]

\* the positions of d at which " ... " begins
EllipsisAt(d) ==
    {i \in 1..(Len(d) - Len(ELLIPSIS) + 1) : SubSeq(d, i, i + Len(ELLIPSIS) - 1) = ELLIPSIS}

\* the start of the range a datetime text shows
StartOf(d) ==
    IF EllipsisAt(d) = {} THEN d
    ELSE Take(d, (CHOOSE i \in EllipsisAt(d) : \A j \in EllipsisAt(d) : i <= j) - 1)

\* entry e shows the group of entry d: same event, same start, the end may differ
ExtendsEntry(e, d) ==
    /\ e.event = d.event
    /\ StartOf(e.datetime) = StartOf(d.datetime)

\* the entries large continue the entries small: all but the last are kept, the last
\* keeps its event and its start
Continues(small, large) ==
    /\ IsPrefix(Take(small, Len(small) - 1), large)
    /\ small # <<>> =>
           /\ Len(large) >= Len(small)
           /\ ExtendsEntry(large[Len(small)], small[Len(small)])

\* C18: for limits k < m the entries for k, without the last one, are a prefix of the
\* entries for m, and the last one keeps its event and the start of its range; during the
\* pass an entry that was appended is never changed or removed.
C18_StableAsLimitGrows ==
    /\ pc = "done" =>
           \A k \in 0..(n_lines - 1) : Continues(read_log_file(path, content, k), entries)
    /\ pc = "loop" => IsPrefix(entries, read_log_file(path, content, n_lines))

\* a smaller limit gives two entries, and the larger limit extended the range of the second
C18_Witness ==
    /\ pc = "done"
    /\ \E k \in 1..(n_lines - 1) :
           LET small == read_log_file(path, content, k)
           IN  /\ Len(small) >= 2
               /\ Len(entries) = Len(small)
               /\ entries[Len(small)].datetime # small[Len(small)].datetime

====
